---- MODULE Spec2Model ----
(***************************************************************************)
(* The Editor component of src/src/components/Editor.tsx: a React function *)
(* component holding the view transform (zoom, position), the tool and     *)
(* gesture flags, and a canvas whose 2d context accumulates the mask.      *)
(*                                                                         *)
(* React semantics that the handlers depend on are part of the model:      *)
(*  - a handler reads the state values of the render it was created in     *)
(*    (the variables zoom, position, ... below are those rendered values); *)
(*  - setX(v) / setX(fn) only enqueue an update (variable queue); the      *)
(*    update is applied when the component re-renders;                     *)
(*  - updates made in discrete events (mousedown, mouseup, click, change)  *)
(*    are rendered, with every other enqueued update, before the next      *)
(*    event is delivered; updates made in continuous events (wheel,        *)
(*    mousemove, mouseleave) are rendered by a later scheduled task        *)
(*    (action Render), so several continuous events may be handled by the  *)
(*    same render's handlers;                                              *)
(*  - calls on the canvas context act on the canvas immediately.           *)
(*                                                                         *)
(* JavaScript numbers are modelled as exact rationals <<n, d>> in lowest   *)
(* terms with d > 0 (IEEE rounding is not modelled).                       *)
(***************************************************************************)
EXTENDS Integers, Sequences, FiniteSets, TLC

VARIABLES
    zoom,          \* useState(1): rendered value
    position,      \* useState({x: 0, y: 0}): rendered value
    isDragging,    \* useState(false)
    isDrawing,     \* useState(false)
    brushSize,     \* useState(20)
    activeTool,    \* useState("pan")
    ctx,           \* useState(null): TRUE once the 2d context is in state
    queue,         \* per hook, the updates enqueued and not yet rendered
    bitmap,        \* canvas bitmap: the set of stroked segments <<from, to, width>>
    path,          \* the context's current path (one subpath, a sequence of points)
    lineWidth,     \* the context's lineWidth
    canvasSize,    \* the canvas element's width/height attributes
    imageLoaded,   \* whether the <img> has loaded: its natural size is known
    onMaskChange,  \* whether the onMaskChange prop is given
    maskChangeCalls, \* number of onMaskChange invocations so far
    ev,            \* the last event delivered, or the re-render after it
    nEvents,       \* number of events delivered
    gesture,       \* "none", "drawing" (after a draw pointer-down), "ended"
    gestureCalls   \* onMaskChange invocations since the last draw pointer-down

vars == <<zoom, position, isDragging, isDrawing, brushSize, activeTool, ctx,
          queue, bitmap, path, lineWidth, canvasSize, imageLoaded,
          onMaskChange, maskChangeCalls, ev, nEvents, gesture, gestureCalls>>

-----------------------------------------------------------------------------
(* Bounds and inputs *)

MaxEvents == 4

Buttons == {0, 2}
BrushValues == {5, 40}
ContainerSizes == {<<800, 600>>, <<640, 480>>}
\* img.naturalWidth, img.naturalHeight of the image shown
NaturalSize == <<400, 300>>

-----------------------------------------------------------------------------
(* Numbers *)

RECURSIVE GCD(_, _)
GCD(a, b) == IF b = 0 THEN a ELSE GCD(b, a % b)

Abs(i) == IF i < 0 THEN -i ELSE i

Q(n, d) ==
    LET s == IF d < 0 THEN -1 ELSE 1
        g == GCD(Abs(n), Abs(d))
    IN  <<(s * n) \div g, (s * d) \div g>>

Add(a, b) == Q(a[1] * b[2] + b[1] * a[2], a[2] * b[2])
Sub(a, b) == Q(a[1] * b[2] - b[1] * a[2], a[2] * b[2])
Mul(a, b) == Q(a[1] * b[1], a[2] * b[2])
Quot(a, b) == Q(a[1] * b[2], a[2] * b[1])
Le(a, b)  == a[1] * b[2] <= b[1] * a[2]
MathMin(a, b) == IF Le(a, b) THEN a ELSE b
MathMax(a, b) == IF Le(a, b) THEN b ELSE a
Num(i) == <<i, 1>>

Pt(x, y) == [x |-> Num(x), y |-> Num(y)]

\* pointer positions relative to the container (clientX - rect.left, ...)
Cursors == {Pt(200, 150), Pt(40, 10)}
\* wheel events <<deltaY, pointer>>: a small zoom-in step, one large enough to
\* pass 5, one large enough to pass 0.1
WheelEvents == {<<-200, Pt(200, 150)>>, <<-200, Pt(40, 10)>>,
                <<-5000, Pt(200, 150)>>, <<1000, Pt(40, 10)>>}
Movements == {Pt(10, -5)}

-----------------------------------------------------------------------------
(* The view transform *)

ZoomMin == Q(1, 10)
ZoomMax == Num(5)

NewZoom_NoClamp(z, deltaY) == Add(z, Q(-deltaY, 1000))

NewZoom_DeltaSign(z, deltaY) ==
    MathMin(MathMax(ZoomMin, Add(z, Q(deltaY, 1000))), ZoomMax)

\* const delta = -e.deltaY / 1000;
\* const newZoom = Math.min(Math.max(0.1, zoom + delta), 5);
NewZoom(z, deltaY) ==
    MathMin(MathMax(ZoomMin, Add(z, Q(-deltaY, 1000))), ZoomMax)

AnchoredPosition_Unanchored(mouse, pos, z, newZoom) == pos

\* { x: mouseX - (mouseX - position.x) * (newZoom / zoom), y: ... }
AnchoredPosition(mouse, pos, z, newZoom) ==
    [x |-> Sub(mouse.x, Mul(Sub(mouse.x, pos.x), Quot(newZoom, z))),
     y |-> Sub(mouse.y, Mul(Sub(mouse.y, pos.y), Quot(newZoom, z)))]

getCanvasCoordinates_NoOffset(container, pos, z) ==
    [x |-> Quot(container.x, z), y |-> Quot(container.y, z)]

\* { x: (containerX - position.x) / zoom, y: (containerY - position.y) / zoom }
\* (containerX, containerY: the pointer relative to the container's rect)
getCanvasCoordinates(container, pos, z) ==
    [x |-> Quot(Sub(container.x, pos.x), z),
     y |-> Quot(Sub(container.y, pos.y), z)]

\* style transform: translate(position.x px, position.y px) scale(zoom),
\* transformOrigin "0 0": a point of the canvas is scaled, then translated
imageToScreen(image, pos, z) ==
    [x |-> Add(Mul(image.x, z), pos.x),
     y |-> Add(Mul(image.y, z), pos.y)]

-----------------------------------------------------------------------------
(* React state: update queues and rendering *)

Hooks == {"zoom", "position", "isDragging", "isDrawing", "brushSize",
          "activeTool", "ctx"}

EmptyQueue == [h \in Hooks |-> <<>>]

Set(v) == [fn |-> "set", val |-> v]

\* setPosition({x: position.x + e.movementX, ...}): from the rendered value
AddMovement_FromRendered(d) ==
    Set([x |-> Add(position.x, d.x), y |-> Add(position.y, d.y)])

\* setPosition((prev) => ({x: prev.x + e.movementX, y: prev.y + e.movementY}))
AddMovement(d) == [fn |-> "add", val |-> d]

Enqueue(q, h, u) == [q EXCEPT ![h] = Append(@, u)]

ApplyUpdate(s, u) ==
    IF u.fn = "set" THEN u.val
    ELSE [x |-> Add(s.x, u.val.x), y |-> Add(s.y, u.val.y)]

RECURSIVE Reduce(_, _)
Reduce(s, us) ==
    IF us = <<>> THEN s ELSE Reduce(ApplyUpdate(s, Head(us)), Tail(us))

\* the state the hooks hold once every enqueued update of q is applied
Pending(q) ==
    [zoom       |-> Reduce(zoom, q["zoom"]),
     position   |-> Reduce(position, q["position"]),
     isDragging |-> Reduce(isDragging, q["isDragging"]),
     isDrawing  |-> Reduce(isDrawing, q["isDrawing"]),
     brushSize  |-> Reduce(brushSize, q["brushSize"]),
     activeTool |-> Reduce(activeTool, q["activeTool"]),
     ctx        |-> Reduce(ctx, q["ctx"])]

Rendered ==
    [zoom |-> zoom, position |-> position, isDragging |-> isDragging,
     isDrawing |-> isDrawing, brushSize |-> brushSize,
     activeTool |-> activeTool, ctx |-> ctx]

DefaultCanvasSize == <<300, 150>>

\* One re-render of the component with the updates of q, on a canvas whose
\* bitmap, path and line width are bm, pth, lw.  When the state changed the
\* element props are committed: width/height = the client size the container
\* has at this render (size: the window may have been resized since the last
\* one); setting a canvas dimension to a new value resets bitmap and context.
CommitAt(size, q, bm, pth, lw) ==
    LET s == Pending(q)
        changed == s # Rendered
        resized == changed /\ canvasSize # size
    IN  /\ zoom' = s.zoom
        /\ position' = s.position
        /\ isDragging' = s.isDragging
        /\ isDrawing' = s.isDrawing
        /\ brushSize' = s.brushSize
        /\ activeTool' = s.activeTool
        /\ ctx' = s.ctx
        /\ queue' = EmptyQueue
        /\ canvasSize' = IF changed THEN size ELSE canvasSize
        /\ bitmap' = IF resized THEN {} ELSE bm
        /\ path' = IF resized THEN <<>> ELSE pth
        /\ lineWidth' = IF resized THEN Num(1) ELSE lw

Commit(q, bm, pth, lw) ==
    IF Pending(q) = Rendered
    THEN CommitAt(canvasSize, q, bm, pth, lw)
    ELSE \E size \in ContainerSizes : CommitAt(size, q, bm, pth, lw)

\* A continuous event's handler returns with its updates only enqueued.
Defer(q, bm, pth, lw) ==
    /\ queue' = q
    /\ bitmap' = bm
    /\ path' = pth
    /\ lineWidth' = lw
    /\ UNCHANGED <<zoom, position, isDragging, isDrawing, brushSize,
                   activeTool, ctx, canvasSize>>

-----------------------------------------------------------------------------
(* The canvas context *)

\* ctx.beginPath(); ctx.moveTo(x, y)
BeginPathMoveTo(pt) == <<pt>>

\* ctx.lineTo(x, y): with no subpath the point only starts one
LineTo(pth, pt) == Append(pth, pt)

LineWidth_Unscaled(size, z) == Num(size)

\* ctx.lineWidth = brushSize / zoom
LineWidth(size, z) == Quot(Num(size), z)

\* ctx.stroke(): every segment of the current path, at the current width
Stroke(bm, pth, lw) ==
    bm \cup {<<pth[i], pth[i + 1], lw>> : i \in 1 .. (Len(pth) - 1)}

-----------------------------------------------------------------------------
(* Events *)

\* the elements an event can target: the canvas, a button, and the slider,
\* which is rendered only while activeTool === "draw"
Tags == {"CANVAS", "BUTTON"} \cup (IF activeTool = "draw" THEN {"INPUT"} ELSE {})

NoEvent ==
    [type |-> "none", tag |-> "DIV", deltaY |-> 0, mouse |-> Pt(0, 0),
     movement |-> Pt(0, 0)]

Deliver(type, tag, deltaY, mouse, movement) ==
    /\ nEvents < MaxEvents
    /\ nEvents' = nEvents + 1
    /\ imageLoaded' = (imageLoaded \/ type = "load")
    /\ ev' = [type |-> type, tag |-> tag, deltaY |-> deltaY, mouse |-> mouse,
              movement |-> movement]

Init ==
    /\ zoom = Num(1)
    /\ position = Pt(0, 0)
    /\ isDragging = FALSE
    /\ isDrawing = FALSE
    /\ brushSize = 20
    /\ activeTool = "pan"
    /\ ctx = FALSE
    \* useEffect: const context = canvas.getContext("2d");
    \*            if (context) { ...; setCtx(context) }
    /\ \E context \in BOOLEAN :
           queue = IF context THEN Enqueue(EmptyQueue, "ctx", Set(TRUE))
                   ELSE EmptyQueue
    /\ bitmap = {}
    /\ path = <<>>
    /\ lineWidth = Num(1)
    /\ canvasSize = DefaultCanvasSize
    /\ imageLoaded = FALSE
    /\ onMaskChange \in BOOLEAN
    /\ maskChangeCalls = 0
    /\ ev = NoEvent
    /\ nEvents = 0
    /\ gesture = "none"
    /\ gestureCalls = 0

handleWheel(deltaY, mouse, tag) ==
    /\ Deliver("wheel", tag, deltaY, mouse, Pt(0, 0))
    /\ LET newZoom == NewZoom(zoom, deltaY)
           q1 == Enqueue(queue, "position",
                         Set(AnchoredPosition(mouse, position, zoom, newZoom)))
           q2 == Enqueue(q1, "zoom", Set(newZoom))
       IN  Defer(q2, bitmap, path, lineWidth)
    /\ UNCHANGED <<onMaskChange, maskChangeCalls,
                   gesture, gestureCalls>>

handleMouseDown(button, tag, client) ==
    /\ Deliver("mousedown", tag, 0, Pt(0, 0), Pt(0, 0))
    /\ UNCHANGED <<onMaskChange, maskChangeCalls>>
    /\ IF button # 0 \/ tag = "BUTTON" \/ tag = "INPUT"
       THEN /\ Defer(queue, bitmap, path, lineWidth)
            /\ UNCHANGED <<gesture, gestureCalls>>
       ELSE IF activeTool = "pan"
       THEN /\ Commit(Enqueue(queue, "isDragging", Set(TRUE)),
                      bitmap, path, lineWidth)
            /\ UNCHANGED <<gesture, gestureCalls>>
       ELSE IF ~ctx
       THEN /\ Defer(queue, bitmap, path, lineWidth)
            /\ UNCHANGED <<gesture, gestureCalls>>
       ELSE /\ Commit(Enqueue(queue, "isDrawing", Set(TRUE)), bitmap,
                      BeginPathMoveTo(getCanvasCoordinates(client, position, zoom)),
                      lineWidth)
            /\ gesture' = "drawing"
            /\ gestureCalls' = 0

handleMouseMove_NoSession(tag, client, movement) ==
    /\ Deliver("mousemove", tag, 0, Pt(0, 0), movement)
    /\ UNCHANGED <<onMaskChange, maskChangeCalls,
                   gesture, gestureCalls>>
    /\ IF tag = "BUTTON" \/ tag = "INPUT"
       THEN Defer(queue, bitmap, path, lineWidth)
       ELSE IF activeTool = "pan"
       THEN Defer(Enqueue(queue, "position", AddMovement(movement)),
                  bitmap, path, lineWidth)
       ELSE IF activeTool = "draw" /\ ctx
       THEN LET pth == LineTo(path, getCanvasCoordinates(client, position, zoom))
                lw == LineWidth(brushSize, zoom)
            IN  Defer(queue, Stroke(bitmap, pth, lw), pth, lw)
       ELSE Defer(queue, bitmap, path, lineWidth)

handleMouseMove(tag, client, movement) ==
    /\ Deliver("mousemove", tag, 0, Pt(0, 0), movement)
    /\ UNCHANGED <<onMaskChange, maskChangeCalls,
                   gesture, gestureCalls>>
    /\ IF tag = "BUTTON" \/ tag = "INPUT"
       THEN Defer(queue, bitmap, path, lineWidth)
       ELSE IF activeTool = "pan" /\ isDragging
       THEN Defer(Enqueue(queue, "position", AddMovement(movement)),
                  bitmap, path, lineWidth)
       ELSE IF activeTool = "draw" /\ isDrawing /\ ctx
       THEN LET pth == LineTo(path, getCanvasCoordinates(client, position, zoom))
                lw == LineWidth(brushSize, zoom)
            IN  Defer(queue, Stroke(bitmap, pth, lw), pth, lw)
       ELSE Defer(queue, bitmap, path, lineWidth)

\* bound to onMouseUp (a discrete event) and to onMouseLeave (a continuous one)
handleMouseUp(type, tag) ==
    /\ Deliver(type, tag, 0, Pt(0, 0), Pt(0, 0))
    /\ LET q == Enqueue(Enqueue(queue, "isDragging", Set(FALSE)),
                        "isDrawing", Set(FALSE))
       IN  IF type = "mouseup"
           THEN Commit(q, bitmap, path, lineWidth)
           ELSE Defer(q, bitmap, path, lineWidth)
    /\ IF onMaskChange
       THEN /\ maskChangeCalls' = maskChangeCalls + 1
            /\ gestureCalls' = gestureCalls + 1
       ELSE UNCHANGED <<maskChangeCalls, gestureCalls>>
    /\ gesture' = IF gesture = "drawing" THEN "ended" ELSE gesture
    /\ UNCHANGED onMaskChange

resetView_NoClear ==
    /\ Deliver("reset", "BUTTON", 0, Pt(0, 0), Pt(0, 0))
    /\ Commit(Enqueue(Enqueue(queue, "zoom", Set(Num(1))),
                      "position", Set(Pt(0, 0))),
              bitmap, path, lineWidth)
    /\ UNCHANGED <<onMaskChange, maskChangeCalls, gesture, gestureCalls>>

resetView_NeedsContext ==
    /\ Deliver("reset", "BUTTON", 0, Pt(0, 0), Pt(0, 0))
    /\ IF ctx
       THEN Commit(Enqueue(Enqueue(queue, "zoom", Set(Num(1))),
                           "position", Set(Pt(0, 0))),
                   {}, path, lineWidth)
       ELSE Defer(queue, bitmap, path, lineWidth)
    /\ UNCHANGED <<onMaskChange, maskChangeCalls, gesture, gestureCalls>>

\* setZoom(1); setPosition({x: 0, y: 0}); if (ctx && canvasRef.current) clearRect
resetView ==
    /\ Deliver("reset", "BUTTON", 0, Pt(0, 0), Pt(0, 0))
    /\ Commit(Enqueue(Enqueue(queue, "zoom", Set(Num(1))),
                      "position", Set(Pt(0, 0))),
              IF ctx THEN {} ELSE bitmap, path, lineWidth)
    /\ UNCHANGED <<onMaskChange, maskChangeCalls,
                   gesture, gestureCalls>>

setActiveTool(tool) ==
    /\ Deliver("tool", "BUTTON", 0, Pt(0, 0), Pt(0, 0))
    /\ Commit(Enqueue(queue, "activeTool", Set(tool)), bitmap, path, lineWidth)
    /\ UNCHANGED <<onMaskChange, maskChangeCalls,
                   gesture, gestureCalls>>

\* the slider is rendered only while activeTool === "draw"
setBrushSize(value) ==
    /\ activeTool = "draw"
    /\ Deliver("brush", "INPUT", 0, Pt(0, 0), Pt(0, 0))
    /\ Commit(Enqueue(queue, "brushSize", Set(value)), bitmap, path, lineWidth)
    /\ UNCHANGED <<onMaskChange, maskChangeCalls,
                   gesture, gestureCalls>>

\* the scheduled re-render that applies the enqueued updates
Render ==
    /\ queue # EmptyQueue
    /\ Commit(queue, bitmap, path, lineWidth)
    /\ ev' = [NoEvent EXCEPT !.type = "render"]
    /\ UNCHANGED <<imageLoaded, onMaskChange, maskChangeCalls, nEvents,
                   gesture, gestureCalls>>

\* The <img> finishes loading.  It has no onLoad handler, and the load event
\* does not bubble; the onLoad written on the <canvas>, which would size the
\* canvas, is never called because a canvas element fires no load event.
ImageLoad ==
    /\ ~imageLoaded
    /\ Deliver("load", "IMG", 0, Pt(0, 0), Pt(0, 0))
    /\ Defer(queue, bitmap, path, lineWidth)
    /\ UNCHANGED <<onMaskChange, maskChangeCalls, gesture, gestureCalls>>

Wheel == \E w \in WheelEvents, tag \in Tags : handleWheel(w[1], w[2], tag)
MouseDown == \E button \in Buttons, tag \in Tags, client \in Cursors :
                 handleMouseDown(button, tag, client)
MouseMove == \E tag \in Tags, client \in Cursors, movement \in Movements :
                 handleMouseMove(tag, client, movement)
MouseUp == \E tag \in Tags : handleMouseUp("mouseup", tag)
MouseLeave == handleMouseUp("mouseleave", "DIV")
ToolClick == \E tool \in {"pan", "draw"} : setActiveTool(tool)
BrushChange == \E value \in BrushValues : setBrushSize(value)

\* the user's events and the re-render
NextLoaded ==
    \/ Wheel
    \/ MouseDown
    \/ MouseMove
    \/ MouseUp
    \/ MouseLeave
    \/ ToolClick
    \/ BrushChange
    \/ resetView
    \/ Render

Next ==
    \/ NextLoaded
    \/ ImageLoad

Spec == Init /\ [][Next]_vars

\* The editor in the middle of a session: mounted with a context and rendered
\* in an 800 x 600 container, zoomed to 2 by a wheel event of deltaY = -1000
\* at (200, 150), the image loaded, the Draw tool chosen and the slider set
\* to 40.
InitDraw ==
    /\ zoom = Num(2)
    /\ position = Pt(-200, -150)
    /\ isDragging = FALSE
    /\ isDrawing = FALSE
    /\ brushSize = 40
    /\ activeTool = "draw"
    /\ ctx = TRUE
    /\ queue = EmptyQueue
    /\ bitmap = {}
    /\ path = <<>>
    /\ lineWidth = Num(1)
    /\ canvasSize = <<800, 600>>
    /\ imageLoaded = TRUE
    /\ onMaskChange \in BOOLEAN
    /\ maskChangeCalls = 0
    /\ ev = NoEvent
    /\ nEvents = 0
    /\ gesture = "none"
    /\ gestureCalls = 0

SpecDraw == InitDraw /\ [][NextLoaded]_vars

-----------------------------------------------------------------------------
(* Properties *)

IsEvent(type) == nEvents' # nEvents /\ ev'.type = type

\* the state a wheel event leaves, its updates enqueued and not yet rendered
WheelPending == ev.type = "wheel"

InRange(z) == Le(ZoomMin, z) /\ Le(z, ZoomMax)

\* C1: with a callback registered, a completed draw gesture (left pointer-down
\* with Tool=Draw, then the first pointer-up or pointer-leave) has produced
\* exactly one onMaskChange call by the time the next draw gesture starts.
C1_OncePerDrawGesture ==
    (onMaskChange /\ gesture = "ended") => gestureCalls = 1

\* C2: onMaskChange is invoked only by the event that ends a draw gesture:
\* never by the end of a pan gesture, by a pointer-up or pointer-leave with no
\* gesture active, or by a reset.
C2_CallOnlyAtDrawEnd ==
    [][maskChangeCalls' # maskChangeCalls => gesture = "drawing"]_vars

\* C3: the zoom, rendered or enqueued, always lies in [0.1, 5.0].
C3_ZoomInRange ==
    /\ InRange(zoom)
    /\ InRange(Pending(queue).zoom)
    /\ \A i \in 1 .. Len(queue["zoom"]) : InRange(queue["zoom"][i].val)

C3_Witness ==
    /\ WheelPending
    /\ zoom = ZoomMin
    /\ Pending(queue).zoom = ZoomMax

C4_ImageCoord(cursor, offset, z) ==
    [x |-> Quot(Sub(cursor.x, offset.x), z),
     y |-> Quot(Sub(cursor.y, offset.y), z)]

\* C4: a wheel event keeps the image-space coordinate under the cursor,
\* (cursor - offset) / zoom, the same from the zoom and offset it was handled
\* with to the zoom and offset it sets, clamped or not; from zoom 1, offset
\* (0,0), deltaY -200 at (200,150) it sets zoom 1.2 and offset (-40,-30).
C4_CursorAnchored ==
    WheelPending =>
        LET after == Pending(queue) IN
        /\ C4_ImageCoord(ev.mouse, after.position, after.zoom)
             = C4_ImageCoord(ev.mouse, position, zoom)
        /\ (zoom = Num(1) /\ position = Pt(0, 0) /\ ev.deltaY = -200
              /\ ev.mouse = Pt(200, 150))
           => (after.zoom = Q(6, 5) /\ after.position = Pt(-40, -30))

C4_Witness ==
    /\ WheelPending
    /\ zoom # Num(1)
    /\ position # Pt(0, 0)
    /\ Pending(queue).zoom = ZoomMax
    /\ ~InRange(Add(zoom, Q(-ev.deltaY, 1000)))

C5_Clamp(v) ==
    IF Le(v, ZoomMin) THEN ZoomMin ELSE IF Le(ZoomMax, v) THEN ZoomMax ELSE v

\* C5: a wheel event with vertical delta deltaY sets the zoom to
\* clamp(zoom - deltaY/1000, 0.1, 5.0), zoom being the value it was handled with.
C5_WheelZoom ==
    WheelPending =>
        Pending(queue).zoom = C5_Clamp(Sub(zoom, Q(ev.deltaY, 1000)))

C5_Witness ==
    /\ WheelPending
    /\ zoom = Q(6, 5)
    /\ ev.deltaY = -200
    /\ Pending(queue).zoom = Q(7, 5)

\* C6: getCanvasCoordinates inverts the render transform: for the rendered
\* zoom and position and every pointer position P,
\* imageToScreen(getCanvasCoordinates(P)) = P.
C6_ExactInverse ==
    \A P \in Cursors :
        imageToScreen(getCanvasCoordinates(P, position, zoom), position, zoom) = P

C6_Witness ==
    /\ zoom # Num(1)
    /\ position # Pt(0, 0)
    /\ isDrawing
    /\ Len(path) = 1
    /\ imageToScreen(path[1], position, zoom) \in Cursors
    /\ path[1] \notin Cursors

\* C7: a pointer-move dispatched while Tool=Pan and a drag session is active
\* adds exactly its movement delta to the offset and changes neither zoom,
\* mask, tool, brush size nor the gesture flags.
C7_PanOnlyMovesOffset ==
    [][(/\ IsEvent("mousemove")
        /\ ev'.tag \notin {"BUTTON", "INPUT"}
        /\ activeTool = "pan"
        /\ (isDragging \/ Reduce(isDragging, queue["isDragging"])))
       => /\ Pending(queue)' =
               [Pending(queue) EXCEPT
                   !.position = [x |-> Add(@.x, ev'.movement.x),
                                 y |-> Add(@.y, ev'.movement.y)]]
          /\ UNCHANGED <<zoom, isDragging, isDrawing, brushSize, activeTool,
                         bitmap, path>>]_vars

C7_Witness ==
    /\ ev.type = "mousemove"
    /\ activeTool = "pan"
    /\ isDragging
    /\ Len(queue["position"]) >= 2
    /\ queue["position"][1].fn = "set"
    /\ Pending(queue).position # position

\* C8: after the reset action zoom is 1, the offset is (0,0) and the mask
\* buffer is empty.
C8_ResetRestoresView ==
    ev.type = "reset" =>
        /\ zoom = Num(1)
        /\ position = Pt(0, 0)
        /\ Pending(queue).zoom = Num(1)
        /\ Pending(queue).position = Pt(0, 0)
        /\ bitmap = {}

C8_Witness ==
    /\ ev.type = "reset"
    /\ isDrawing
    /\ Len(path) >= 2
    /\ bitmap = {}

\* C9: an event whose target is a control (BUTTON or INPUT) changes neither
\* the gesture state, the transform nor the mask, and calls no onMaskChange.
C9_ControlEventsIgnored ==
    [][(/\ nEvents' # nEvents
        /\ ev'.type \in {"wheel", "mousedown", "mousemove", "mouseup", "mouseleave"}
        /\ ev'.tag \in {"BUTTON", "INPUT"})
       => /\ Pending(queue)' = Pending(queue)
          /\ UNCHANGED <<bitmap, path, maskChangeCalls>>]_vars

\* C10: no action other than reset removes a painted stroke from the mask.
C10_OnlyResetClears ==
    [][~IsEvent("reset") => bitmap \subseteq bitmap']_vars

\* C11: every stroke made by a pointer-move while drawing has line width
\* brushSize / zoom, with the brush size and zoom of the render the move is
\* handled in: the whole current path is on the mask at that width, the width
\* times the zoom is the brush size, and brushSize = 40 at zoom = 2 gives 20.
C11_DrawMove ==
    /\ ev.type = "mousemove"
    /\ ev.tag \notin {"BUTTON", "INPUT"}
    /\ activeTool = "draw"
    /\ isDrawing
    /\ ctx

C11_StrokeWidth ==
    C11_DrawMove =>
        /\ lineWidth = Quot(Num(brushSize), zoom)
        /\ Mul(lineWidth, zoom) = Num(brushSize)
        /\ \A i \in 1 .. (Len(path) - 1) :
               <<path[i], path[i + 1], lineWidth>> \in bitmap
        /\ (brushSize = 40 /\ zoom = Num(2)) => lineWidth = Num(20)

C11_Witness ==
    /\ C11_DrawMove
    /\ brushSize = 40
    /\ zoom = Num(2)
    /\ lineWidth = Num(20)
    /\ Len(path) >= 2
    /\ \E s \in bitmap : s[3] = Num(20)

\* C12: once the image has loaded, the canvas' width and height are the
\* image's natural width and height, and stay so.
C12_MaskMatchesImage ==
    imageLoaded => canvasSize = NaturalSize

\* C13: events take effect in delivery order with no lost update: each wheel
\* event zooms, and each pan-move shifts, the view left by all the events
\* delivered before it, whether or not the view was re-rendered in between.
C13_WheelInOrder ==
    LET s == Pending(queue)
        newZoom == NewZoom(s.zoom, ev'.deltaY)
    IN  Pending(queue)' =
            [s EXCEPT !.zoom = newZoom,
                      !.position = AnchoredPosition(ev'.mouse, s.position,
                                                    s.zoom, newZoom)]

C13_PanMoveInOrder ==
    LET s == Pending(queue)
    IN  Pending(queue)' =
            [s EXCEPT !.position = [x |-> Add(s.position.x, ev'.movement.x),
                                    y |-> Add(s.position.y, ev'.movement.y)]]

C13_InDeliveryOrder ==
    [][/\ IsEvent("wheel") => C13_WheelInOrder
       /\ (/\ IsEvent("mousemove")
           /\ ev'.tag \notin {"BUTTON", "INPUT"}
           /\ activeTool = "pan"
           /\ isDragging) => C13_PanMoveInOrder]_vars

\* C14: a tool switch during a gesture is guarded: in no reachable state is
\* a pan session active with the Draw tool, or a draw session active with the
\* Pan tool.
C14_SessionMatchesTool ==
    /\ ~(isDragging /\ activeTool = "draw")
    /\ ~(isDrawing /\ activeTool = "pan")

\* C15: a pointer-up and a pointer-leave both end the gesture and change
\* nothing else: once the event is handled neither session is active (their
\* updates are at least enqueued), and zoom, offset and the mask content are
\* as they were before the event.
C15_UpOrLeaveEndsGesture ==
    [][(IsEvent("mouseup") \/ IsEvent("mouseleave")) =>
           /\ Pending(queue)' = [Pending(queue) EXCEPT !.isDragging = FALSE,
                                                       !.isDrawing = FALSE]
           /\ bitmap' = bitmap]_vars

\* C16: a gesture starts only on a left-button pointer-down whose target is
\* not a control.  With the Pan tool such a pointer-down starts a pan session;
\* with the Draw tool and a context it starts a draw session whose path is
\* new and begins at the image point under the pointer.  A pointer-down with
\* another button leaves gesture state, transform and mask unchanged.
C16_SessionStarts ==
    \/ ~isDragging /\ isDragging'
    \/ ~isDrawing /\ isDrawing'
    \/ ~Reduce(isDragging, queue["isDragging"])
           /\ Reduce(isDragging, queue["isDragging"])'
    \/ ~Reduce(isDrawing, queue["isDrawing"])
           /\ Reduce(isDrawing, queue["isDrawing"])'

C16_Effect(button, tag, client) ==
    IF button # 0
    THEN /\ UNCHANGED <<zoom, position, isDragging, isDrawing, bitmap, path>>
         /\ Pending(queue)' = Pending(queue)
    ELSE IF tag \in {"BUTTON", "INPUT"}
    THEN TRUE
    ELSE IF activeTool = "pan"
    THEN isDragging'
    ELSE ctx =>
             /\ isDrawing'
             /\ path' = <<getCanvasCoordinates(client, position, zoom)>>

C16_GestureStart ==
    [][/\ C16_SessionStarts =>
              \E client \in Cursors : handleMouseDown(0, "CANVAS", client)
       /\ \A button \in Buttons, tag \in Tags, client \in Cursors :
              handleMouseDown(button, tag, client) =>
                  C16_Effect(button, tag, client)]_vars

\* C17: while the handlers have no rendering context, a pointer-down with
\* the Draw tool starts no draw session (none is active, none is enqueued),
\* no pointer-move has stroked anything, and a reset still leaves zoom = 1
\* and offset = (0, 0) with the mask untouched.
C17_NoContext ==
    ~ctx =>
        /\ ~isDrawing
        /\ ~Reduce(isDrawing, queue["isDrawing"])
        /\ bitmap = {}
        /\ path = <<>>
        /\ ev.type = "reset" => (zoom = Num(1) /\ position = Pt(0, 0))

C17_Witness ==
    /\ ~ctx
    /\ queue = EmptyQueue
    /\ activeTool = "draw"
    /\ ev.type = "reset"
    /\ nEvents = MaxEvents

\* C18: a pointer-move never changes the zoom; it changes the offset only
\* when the tool is Pan and a pan session is active, and paints only when the
\* tool is Draw and a draw session is active.  In every other state it leaves
\* zoom, offset and mask as they were.
C18_MoveInGestureOnly ==
    [][IsEvent("mousemove") =>
           /\ UNCHANGED <<zoom, position, isDragging, isDrawing, brushSize,
                          activeTool, ctx, canvasSize>>
           /\ queue'["zoom"] = queue["zoom"]
           /\ (activeTool = "pan" /\ isDragging) \/ queue' = queue
           /\ (activeTool = "draw" /\ isDrawing)
                  \/ UNCHANGED <<bitmap, path, lineWidth>>]_vars

C18_Witness ==
    /\ ev.type = "mousemove"
    /\ ev.tag = "CANVAS"
    /\ ~isDragging
    /\ ~isDrawing
    /\ bitmap # {}
    /\ queue = EmptyQueue

\* C19: isDragging and isDrawing are never both true.
C19_OneSessionAtMost ==
    ~(isDragging /\ isDrawing)

\* C20: strokes cleared by a reset never reappear, also when the reset comes
\* in the middle of a draw gesture that then goes on: a pointer-move puts on
\* the mask only the segment it adds, or segments that are on the mask
\* already, so after a reset nothing painted before it comes back.
C20_ClearedStaysCleared ==
    [][IsEvent("mousemove") =>
           \A s \in bitmap' \ bitmap :
               \/ /\ Len(path') >= 2
                  /\ s[1] = path'[Len(path') - 1]
                  /\ s[2] = path'[Len(path')]
               \/ \E t \in bitmap : t[1] = s[1] /\ t[2] = s[2]]_vars

====
